---------------------------- MODULE Spec2Model ----------------------------
(***************************************************************************)
(* Decision engine of foto_check.py: the condition matcher (rule_matches), *)
(* the rule engine (apply_config_rules), the decision orchestrator         *)
(* (evaluate), the sensitivity classifier (calculate_sensitivity) and the  *)
(* legal reference resolver (resolve_legal_refs).                          *)
(*                                                                         *)
(* Python values are modelled as follows.                                  *)
(*   - An optional value (a dict key that may be missing, an Optional      *)
(*     field) is a set: {} when missing / None, {v} when present.          *)
(*   - A dict with a known set of possible keys is a record with one       *)
(*     optional field per key; `k in d` is d.k # {}.                       *)
(*   - A raised exception is the name of its class in `exc`.               *)
(*   - The emoji that starts some messages is left out of the strings.     *)
(***************************************************************************)
EXTENDS Integers, Sequences, FiniteSets, TLC

VARIABLES
    pc,         \* which call is pending / done
    ctx,        \* the PhotoContext
    cfg,        \* the configuration dict (rules_ordered, legal_ref_catalog)
    when,       \* rule_matches' `when` argument
    when2,      \* a second `when`: `when` with keys added
    keys,       \* resolve_legal_refs' `keys` argument
    out         \* what the call returned or raised

vars == <<pc, ctx, cfg, when, when2, keys, out>>

-----------------------------------------------------------------------------
(* Bounds of the model *)

MaxRules == 2       \* longest rules_ordered list
MaxWhenKeys == 2    \* most keys in one `when` mapping
MaxSeqLen == 3      \* longest key sequence handed to resolve_legal_refs

-----------------------------------------------------------------------------
(* Enums & dataclasses *)

Decision == {"ALLOWED", "LIMITED", "NOT_ALLOWED"}

Channels == {"website", "social", "print"}
Consents == {"alle", "teilweise", "unbekannt"}

PhotoContext ==
    [minors : BOOLEAN, identifiable : BOOLEAN, group_photo : BOOLEAN,
     prominent_subject : BOOLEAN, channel : Channels, consent_status : Consents]

Some(s) == CHOOSE x \in s : TRUE

-----------------------------------------------------------------------------
(* `when` mappings *)

BoolKeys == {"minors", "identifiable", "group_photo", "prominent_subject"}

\* A channel_in value: a JSON list (coll) of channel names, or a JSON scalar
\* (a number, null, true), which supports no `in`.
ChannelInValues ==
    {[coll |-> TRUE, items |-> S] : S \in SUBSET Channels}
        \cup {[coll |-> FALSE, items |-> {}]}

\* Keys a configuration author may write: those rule_matches reads, and two it
\* does not read ("channel", and "minor", a misspelling of "minors").
WhenDicts ==
    [consent_status : {{}} \cup {{c} : c \in Consents},
     minors : {{}, {TRUE}, {FALSE}},
     identifiable : {{}, {TRUE}, {FALSE}},
     group_photo : {{}, {TRUE}, {FALSE}},
     prominent_subject : {{}, {TRUE}, {FALSE}},
     channel_in : {{}} \cup {{v} : v \in ChannelInValues},
     channel : {{}} \cup {{c} : c \in Channels},
     minor : {{}, {TRUE}, {FALSE}}]

EmptyDict ==
    [consent_status |-> {}, minors |-> {}, identifiable |-> {},
     group_photo |-> {}, prominent_subject |-> {}, channel_in |-> {},
     channel |-> {}, minor |-> {}]

WhenKeys == DOMAIN EmptyDict

NumKeys(d) == Cardinality({k \in WhenKeys : d[k] # {}})

\* The value of a JSON `when`: a mapping, or null.
Mapping(d) == [kind |-> "dict", d |-> d]
Null == [kind |-> "null", d |-> EmptyDict]

-----------------------------------------------------------------------------
(* What a call returns or raises: val = {} with exc = "none" is None *)

NoOut == [exc |-> "none", val |-> {}]
Returned(v) == [exc |-> "none", val |-> {v}]
Raised(e) == [exc |-> e, val |-> {}]

NoCfg == [rules_ordered |-> {}, legal_ref_catalog |-> {}]
NoCtx == [minors |-> FALSE, identifiable |-> FALSE, group_photo |-> TRUE,
          prominent_subject |-> FALSE, channel |-> "print", consent_status |-> "alle"]

-----------------------------------------------------------------------------
(* Regel-Engine *)

\* rule_matches without its consent_status test.
rule_matches_no_consent(c, w) ==
    IF w.kind = "null" THEN "TypeError"
    ELSE LET d == w.d IN
    IF d.minors # {} /\ c.minors # Some(d.minors) THEN "False"
    ELSE IF d.identifiable # {} /\ c.identifiable # Some(d.identifiable) THEN "False"
    ELSE IF d.group_photo # {} /\ c.group_photo # Some(d.group_photo) THEN "False"
    ELSE IF d.prominent_subject # {}
            /\ c.prominent_subject # Some(d.prominent_subject) THEN "False"
    ELSE IF d.channel_in # {} /\ ~Some(d.channel_in).coll THEN "TypeError"
    ELSE IF d.channel_in # {} /\ c.channel \notin Some(d.channel_in).items THEN "False"
    ELSE "True"

\* rule_matches whose minors test returns its verdict at once
\* (`if "minors" in when: return ctx.minors == when["minors"]`).
rule_matches_early_return(c, w) ==
    IF w.kind = "null" THEN "TypeError"
    ELSE LET d == w.d IN
    IF d.consent_status # {} /\ c.consent_status # Some(d.consent_status) THEN "False"
    ELSE IF d.minors # {}
    THEN (IF c.minors = Some(d.minors) THEN "True" ELSE "False")
    ELSE IF d.identifiable # {} /\ c.identifiable # Some(d.identifiable) THEN "False"
    ELSE IF d.group_photo # {} /\ c.group_photo # Some(d.group_photo) THEN "False"
    ELSE IF d.prominent_subject # {}
            /\ c.prominent_subject # Some(d.prominent_subject) THEN "False"
    ELSE IF d.channel_in # {} /\ ~Some(d.channel_in).coll THEN "TypeError"
    ELSE IF d.channel_in # {} /\ c.channel \notin Some(d.channel_in).items THEN "False"
    ELSE "True"

\* "True", "False", or the exception raised.
rule_matches(c, w) ==
    IF w.kind = "null" THEN "TypeError"
    ELSE LET d == w.d IN
    IF d.consent_status # {} /\ c.consent_status # Some(d.consent_status) THEN "False"
    ELSE IF d.minors # {} /\ c.minors # Some(d.minors) THEN "False"
    ELSE IF d.identifiable # {} /\ c.identifiable # Some(d.identifiable) THEN "False"
    ELSE IF d.group_photo # {} /\ c.group_photo # Some(d.group_photo) THEN "False"
    ELSE IF d.prominent_subject # {}
            /\ c.prominent_subject # Some(d.prominent_subject) THEN "False"
    ELSE IF d.channel_in # {} /\ ~Some(d.channel_in).coll THEN "TypeError"
    ELSE IF d.channel_in # {} /\ c.channel \notin Some(d.channel_in).items THEN "False"
    ELSE "True"

\* A rule of rules_ordered: a dict whose keys may each be missing.
\*   rule.get("when", {})
rule_get_when(rule) == IF rule.when = {} THEN Mapping(EmptyDict) ELSE Some(rule.when)
\*   rule.get("extra_reasons", [])
rule_get_extra_reasons(rule) ==
    IF rule.extra_reasons = {} THEN <<>> ELSE Some(rule.extra_reasons)
\*   rule.get("legal_refs", [])
rule_get_legal_refs(rule) ==
    IF rule.legal_refs = {} THEN <<>> ELSE Some(rule.legal_refs)

\* make_result with the rule's reasons put first.
make_result_extra_first(rule, base_reasons) ==
    IF rule.decision = {} THEN Raised("KeyError")
    ELSE IF Some(rule.decision) \notin Decision THEN Raised("KeyError")
    ELSE IF rule.message = {} THEN Raised("KeyError")
    ELSE Returned([decision |-> Some(rule.decision),
                   message |-> Some(rule.message),
                   reasons |-> rule_get_extra_reasons(rule) \o base_reasons,
                   rule_id |-> rule.id,
                   legal_ref_keys |-> {rule_get_legal_refs(rule)}])

\* Result(decision=Decision[rule["decision"]], message=rule["message"], ...):
\* the keyword arguments are evaluated left to right; rule["decision"] and
\* Decision[...] raise KeyError on a missing key / an unknown member name.
make_result(rule, base_reasons) ==
    IF rule.decision = {} THEN Raised("KeyError")
    ELSE IF Some(rule.decision) \notin Decision THEN Raised("KeyError")
    ELSE IF rule.message = {} THEN Raised("KeyError")
    ELSE Returned([decision |-> Some(rule.decision),
                   message |-> Some(rule.message),
                   reasons |-> base_reasons \o rule_get_extra_reasons(rule),
                   rule_id |-> rule.id,
                   legal_ref_keys |-> {rule_get_legal_refs(rule)}])

\* The loop without its `return`: a later matching rule overrides an earlier one.
RECURSIVE scan_rules_last_match(_, _, _, _)
scan_rules_last_match(c, rules, base_reasons, i) ==
    IF i > Len(rules) THEN NoOut
    ELSE LET m == rule_matches(c, rule_get_when(rules[i]))
             rest == scan_rules_last_match(c, rules, base_reasons, i + 1)
         IN  IF m = "True"
             THEN (IF rest = NoOut THEN make_result(rules[i], base_reasons) ELSE rest)
             ELSE IF m = "False" THEN rest
             ELSE Raised(m)

\* The for loop of apply_config_rules from rule i on.
RECURSIVE scan_rules(_, _, _, _)
scan_rules(c, rules, base_reasons, i) ==
    IF i > Len(rules) THEN NoOut
    ELSE LET m == rule_matches(c, rule_get_when(rules[i])) IN
         IF m = "True" THEN make_result(rules[i], base_reasons)
         ELSE IF m = "False" THEN scan_rules(c, rules, base_reasons, i + 1)
         ELSE Raised(m)

\* Returns a Result, None (val = {}) or raises.
apply_config_rules(c, cf, base_reasons) ==
    scan_rules(c, IF cf.rules_ordered = {} THEN <<>> ELSE Some(cf.rules_ordered),
               base_reasons, 1)

-----------------------------------------------------------------------------
(* Entscheidungslogik *)

\* The base reasons with the minors sentence appended before the identifiability one.
base_reasons_minors_first(c) ==
    << IF c.minors THEN "Minderjaehrige beteiligt." ELSE "Keine Minderjaehrigen.",
       IF c.identifiable THEN "Personen sind erkennbar."
                         ELSE "Personen sind nicht erkennbar.",
       IF c.group_photo THEN "Gruppenfoto." ELSE "Einzelportrait oder kleine Gruppe.",
       IF c.prominent_subject
       THEN "Eine oder wenige Personen sind deutlich hervorgehoben (portraitaehnlich)."
       ELSE "Keine einzelne Person ist deutlich hervorgehoben.",
       "Kanal: " \o c.channel \o ".",
       "Einwilligung: " \o c.consent_status \o "." >>

\* reasons as evaluate builds it (six appends).
base_reasons_of(c) ==
    << IF c.identifiable THEN "Personen sind erkennbar."
                         ELSE "Personen sind nicht erkennbar.",
       IF c.minors THEN "Minderjaehrige beteiligt." ELSE "Keine Minderjaehrigen.",
       IF c.group_photo THEN "Gruppenfoto." ELSE "Einzelportrait oder kleine Gruppe.",
       IF c.prominent_subject
       THEN "Eine oder wenige Personen sind deutlich hervorgehoben (portraitaehnlich)."
       ELSE "Keine einzelne Person ist deutlich hervorgehoben.",
       "Kanal: " \o c.channel \o ".",
       "Einwilligung: " \o c.consent_status \o "." >>

DefaultMessage == "ERLAUBT: Keine Regel greift restriktiv."

evaluate(c, cf) ==
    LET reasons == base_reasons_of(c)
        hit == apply_config_rules(c, cf, reasons)
    IN  IF hit.exc # "none" THEN hit
        ELSE IF hit.val # {} THEN hit
        ELSE Returned([decision |-> "ALLOWED",
                       message |-> DefaultMessage,
                       reasons |-> reasons,
                       rule_id |-> {},
                       legal_ref_keys |-> {}])

-----------------------------------------------------------------------------
(* DSGVO-Link-Aufloesung *)

\* The loop with `resolved.insert(0, ...)` instead of append.
RECURSIVE collect_refs_reversed(_, _)
collect_refs_reversed(catalog, ks) ==
    IF ks = <<>> THEN <<>>
    ELSE collect_refs_reversed(catalog, Tail(ks))
            \o (IF Head(ks) \in DOMAIN catalog THEN <<catalog[Head(ks)]>> ELSE <<>>)

\* The for loop of resolve_legal_refs over a key list.
RECURSIVE collect_refs(_, _)
collect_refs(catalog, ks) ==
    IF ks = <<>> THEN <<>>
    ELSE (IF Head(ks) \in DOMAIN catalog THEN <<catalog[Head(ks)]>> ELSE <<>>)
            \o collect_refs(catalog, Tail(ks))

\* k: Optional[List[str]]; the catalog is a function from its keys to entries.
resolve_legal_refs(cf, k) ==
    IF k = {} \/ Some(k) = <<>> THEN <<>>
    ELSE LET catalog == IF cf.legal_ref_catalog = {} THEN << >>
                        ELSE Some(cf.legal_ref_catalog)
         IN  collect_refs(catalog, Some(k))

-----------------------------------------------------------------------------
(* Sensibilitaets-Bewertung *)

\* The cascade with the plain minors branch moved above the two more specific
\* minors branches.
calculate_sensitivity_reordered(c) ==
    IF c.consent_status \in {"teilweise", "unbekannt"}
    THEN <<"HIGH", "Hohe Sensibilitaet - Einwilligung ist nicht vollstaendig geklaert.">>
    ELSE IF c.prominent_subject /\ c.identifiable
    THEN IF c.minors
         THEN <<"HIGH", "Hohe Sensibilitaet - hervorgehobene minderjaehrige Person.">>
         ELSE <<"MEDIUM", "Erhoehte Sensibilitaet - hervorgehobene Person (portraitaehnlich).">>
    ELSE IF c.minors
    THEN <<"MEDIUM", "Erhoehte Sensibilitaet - Minderjaehrige beteiligt.">>
    ELSE IF c.minors /\ c.channel = "social"
    THEN <<"HIGH", "Hohe Sensibilitaet - Minderjaehrige in sozialen Medien.">>
    ELSE IF c.minors /\ ~c.group_photo
    THEN <<"HIGH", "Hohe Sensibilitaet - Einzelportrait Minderjaehriger.">>
    ELSE IF c.channel = "social"
    THEN <<"MEDIUM", "Erhoehte Sensibilitaet - Veroeffentlichung in sozialen Medien.">>
    ELSE IF ~c.group_photo
    THEN <<"MEDIUM", "Erhoehte Sensibilitaet - Einzelportrait.">>
    ELSE <<"LOW", "Niedrige Sensibilitaet.">>

\* The cascade with the consent branch below the prominence branch.
calculate_sensitivity_consent_late(c) ==
    IF c.prominent_subject /\ c.identifiable
    THEN IF c.minors
         THEN <<"HIGH", "Hohe Sensibilitaet - hervorgehobene minderjaehrige Person.">>
         ELSE <<"MEDIUM", "Erhoehte Sensibilitaet - hervorgehobene Person (portraitaehnlich).">>
    ELSE IF c.consent_status \in {"teilweise", "unbekannt"}
    THEN <<"HIGH", "Hohe Sensibilitaet - Einwilligung ist nicht vollstaendig geklaert.">>
    ELSE IF c.minors /\ c.channel = "social"
    THEN <<"HIGH", "Hohe Sensibilitaet - Minderjaehrige in sozialen Medien.">>
    ELSE IF c.minors /\ ~c.group_photo
    THEN <<"HIGH", "Hohe Sensibilitaet - Einzelportrait Minderjaehriger.">>
    ELSE IF c.minors
    THEN <<"MEDIUM", "Erhoehte Sensibilitaet - Minderjaehrige beteiligt.">>
    ELSE IF c.channel = "social"
    THEN <<"MEDIUM", "Erhoehte Sensibilitaet - Veroeffentlichung in sozialen Medien.">>
    ELSE IF ~c.group_photo
    THEN <<"MEDIUM", "Erhoehte Sensibilitaet - Einzelportrait.">>
    ELSE <<"LOW", "Niedrige Sensibilitaet.">>

calculate_sensitivity(c) ==
    IF c.consent_status \in {"teilweise", "unbekannt"}
    THEN <<"HIGH", "Hohe Sensibilitaet - Einwilligung ist nicht vollstaendig geklaert.">>
    ELSE IF c.prominent_subject /\ c.identifiable
    THEN IF c.minors
         THEN <<"HIGH", "Hohe Sensibilitaet - hervorgehobene minderjaehrige Person.">>
         ELSE <<"MEDIUM", "Erhoehte Sensibilitaet - hervorgehobene Person (portraitaehnlich).">>
    ELSE IF c.minors /\ c.channel = "social"
    THEN <<"HIGH", "Hohe Sensibilitaet - Minderjaehrige in sozialen Medien.">>
    ELSE IF c.minors /\ ~c.group_photo
    THEN <<"HIGH", "Hohe Sensibilitaet - Einzelportrait Minderjaehriger.">>
    ELSE IF c.minors
    THEN <<"MEDIUM", "Erhoehte Sensibilitaet - Minderjaehrige beteiligt.">>
    ELSE IF c.channel = "social"
    THEN <<"MEDIUM", "Erhoehte Sensibilitaet - Veroeffentlichung in sozialen Medien.">>
    ELSE IF ~c.group_photo
    THEN <<"MEDIUM", "Erhoehte Sensibilitaet - Einzelportrait.">>
    ELSE <<"LOW", "Niedrige Sensibilitaet.">>

-----------------------------------------------------------------------------
(* Legal reference catalogs: key -> {label, url} *)

KeyNames == {"kug22", "dsgvo6", "unknown"}

CatalogOn(D) == [k \in D |-> [label |-> "Hinweis " \o k, url |-> "https://example.org/" \o k]]

Catalogs == {CatalogOn(D) : D \in SUBSET KeyNames}

KeyLists == UNION {[1..n -> KeyNames] : n \in 0..MaxSeqLen}

-----------------------------------------------------------------------------
(* calculate_sensitivity on every valid context *)

InitSens ==
    /\ pc = "call"
    /\ ctx \in PhotoContext
    /\ cfg = NoCfg
    /\ when = Null
    /\ when2 = Null
    /\ keys = {}
    /\ out = NoOut

CalculateSensitivity ==
    /\ pc = "call"
    /\ out' = Returned(calculate_sensitivity(ctx))
    /\ pc' = "done"
    /\ UNCHANGED <<ctx, cfg, when, when2, keys>>

SpecSens == InitSens /\ [][CalculateSensitivity]_vars

-----------------------------------------------------------------------------
(* evaluate on every valid context and a bounded configuration *)

\* The `when` of a configured rule: missing, null, or a mapping.
RuleWhens ==
    {{}, {Null},
     {Mapping([EmptyDict EXCEPT !.minors = {TRUE}])},
     {Mapping([EmptyDict EXCEPT !.consent_status = {"unbekannt"}])},
     {Mapping([EmptyDict EXCEPT
                 !.channel_in = {[coll |-> TRUE, items |-> {"social", "print"}]}])},
     {Mapping([EmptyDict EXCEPT !.channel_in = {[coll |-> FALSE, items |-> {}]}])}}

\* The other keys of a configured rule: complete, minimal, with a decision that
\* is no member of Decision, and without a message.
RulePayloads ==
    {[id |-> {"r_limited"}, decision |-> {"LIMITED"}, message |-> {"Nur eingeschraenkt."},
      extra_reasons |-> {<<"Grund A", "Grund B">>}, legal_refs |-> {<<"kug22", "unknown">>}],
     [id |-> {}, decision |-> {"NOT_ALLOWED"}, message |-> {"Nicht erlaubt."},
      extra_reasons |-> {}, legal_refs |-> {}],
     [id |-> {"r_typo"}, decision |-> {"MAYBE"}, message |-> {"Vielleicht."},
      extra_reasons |-> {<<"Grund C">>}, legal_refs |-> {<<>>}],
     [id |-> {"r_nomsg"}, decision |-> {"ALLOWED"}, message |-> {},
      extra_reasons |-> {<<>>}, legal_refs |-> {<<"dsgvo6">>}]}

Rules ==
    {[id |-> p.id, when |-> w, decision |-> p.decision, message |-> p.message,
      extra_reasons |-> p.extra_reasons, legal_refs |-> p.legal_refs] :
        w \in RuleWhens, p \in RulePayloads}

RuleLists == UNION {[1..n -> Rules] : n \in 0..MaxRules}

InitEval ==
    /\ pc = "call"
    /\ ctx \in PhotoContext
    /\ cfg \in [rules_ordered : {{}} \cup {{rs} : rs \in RuleLists},
                legal_ref_catalog : {{CatalogOn({"kug22", "dsgvo6"})}}]
    /\ when = Null
    /\ when2 = Null
    /\ keys = {}
    /\ out = NoOut

Evaluate ==
    /\ pc = "call"
    /\ out' = evaluate(ctx, cfg)
    /\ pc' = "done"
    /\ UNCHANGED <<ctx, cfg, when, when2, keys>>

Spec == InitEval /\ [][Evaluate]_vars

-----------------------------------------------------------------------------
(* rule_matches on every valid context and a bounded pair of `when` mappings *)

BoundedWhenDicts == {d \in WhenDicts : NumKeys(d) <= MaxWhenKeys}

\* d restricted to the keys in K.
Restrict(d, K) == [k \in WhenKeys |-> IF k \in K THEN d[k] ELSE {}]

InitMatch ==
    /\ pc = "call"
    /\ ctx \in PhotoContext
    /\ cfg = NoCfg
    /\ \E d2 \in BoundedWhenDicts :
         /\ when2 = Mapping(d2)
         /\ \E K \in SUBSET {k \in WhenKeys : d2[k] # {}} : when = Mapping(Restrict(d2, K))
    /\ keys = {}
    /\ out = NoOut

RuleMatches ==
    /\ pc = "call"
    /\ out' = Returned(<<rule_matches(ctx, when), rule_matches(ctx, when2)>>)
    /\ pc' = "done"
    /\ UNCHANGED <<ctx, cfg, when, when2, keys>>

SpecMatch == InitMatch /\ [][RuleMatches]_vars

-----------------------------------------------------------------------------
(* resolve_legal_refs on bounded key sequences and catalogs *)

InitResolve ==
    /\ pc = "call"
    /\ ctx = NoCtx
    /\ cfg \in [rules_ordered : {{}},
                legal_ref_catalog : {{}} \cup {{cat} : cat \in Catalogs}]
    /\ when = Null
    /\ when2 = Null
    /\ keys \in {{}} \cup {{ks} : ks \in KeyLists}
    /\ out = NoOut

ResolveLegalRefs ==
    /\ pc = "call"
    /\ out' = Returned(resolve_legal_refs(cfg, keys))
    /\ pc' = "done"
    /\ UNCHANGED <<ctx, cfg, when, when2, keys>>

SpecResolve == InitResolve /\ [][ResolveLegalRefs]_vars

-----------------------------------------------------------------------------
(* The specification's reading of a rule, stated without rule_matches *)

RulesOf(cf) == IF cf.rules_ordered = {} THEN <<>> ELSE Some(cf.rules_ordered)

\* The Result / pair / sequence a finished call returned.
Res == Some(out.val)

\* Keys compared for equality with the context field of the same name.
EqualityKeys == BoolKeys \cup {"consent_status"}

\* Every equality key present in d has the context's value, and channel_in,
\* if present, is a list holding the context's channel.
DictSatisfied(c, d, eqKeys) ==
    /\ \A k \in eqKeys : d[k] = {} \/ Some(d[k]) = c[k]
    /\ d.channel_in = {}
         \/ (Some(d.channel_in).coll /\ c.channel \in Some(d.channel_in).items)

\* w (missing, or the JSON value) is a mapping whose channel_in is a list.
WellFormedWhen(w) ==
    w = {} \/ (Some(w).kind = "dict"
                /\ (Some(w).d.channel_in = {} \/ Some(Some(w).d.channel_in).coll))

Satisfied(c, rule) ==
    /\ WellFormedWhen(rule.when)
    /\ rule.when = {} \/ DictSatisfied(c, Some(rule.when).d, EqualityKeys)

ValidDecision(rule) == rule.decision # {} /\ Some(rule.decision) \in Decision

\* Rule i is the first satisfied one, after well-formed rules only.
FirstSatisfied(c, rs, i) ==
    /\ Satisfied(c, rs[i])
    /\ \A j \in 1..(i - 1) : WellFormedWhen(rs[j].when) /\ ~Satisfied(c, rs[j])

SixBaseReasons(c, r) ==
    /\ Len(r) >= 6
    /\ r[1] = (IF c.identifiable THEN "Personen sind erkennbar."
                                 ELSE "Personen sind nicht erkennbar.")
    /\ r[2] = (IF c.minors THEN "Minderjaehrige beteiligt." ELSE "Keine Minderjaehrigen.")
    /\ r[3] = (IF c.group_photo THEN "Gruppenfoto." ELSE "Einzelportrait oder kleine Gruppe.")
    /\ r[4] = (IF c.prominent_subject
               THEN "Eine oder wenige Personen sind deutlich hervorgehoben (portraitaehnlich)."
               ELSE "Keine einzelne Person ist deutlich hervorgehoben.")
    /\ r[5] = "Kanal: " \o c.channel \o "."
    /\ r[6] = "Einwilligung: " \o c.consent_status \o "."

-----------------------------------------------------------------------------
(* C1 *)

\* C1: when some rule's `when` is satisfied, evaluate returns the decision,
\* message, rule_id and legal_ref_keys of the first such rule in list order
\* (that rule having a valid decision and a message, the rules before it a
\* well-formed `when`); nothing of a later rule shows, even if it matches too.
C1_FirstMatchWins ==
    pc = "done" =>
        \A i \in 1..Len(RulesOf(cfg)) :
            LET r == RulesOf(cfg)[i] IN
            (FirstSatisfied(ctx, RulesOf(cfg), i) /\ ValidDecision(r) /\ r.message # {})
            => /\ out.exc = "none"
               /\ out.val # {}
               /\ Res.decision = Some(r.decision)
               /\ Res.message = Some(r.message)
               /\ Res.rule_id = r.id
               /\ Res.legal_ref_keys = {IF r.legal_refs = {} THEN <<>> ELSE Some(r.legal_refs)}

\* Two rules match; the first (NOT_ALLOWED, no id) decided, not the second.
C1_Witness ==
    /\ pc = "done"
    /\ Len(RulesOf(cfg)) = 2
    /\ Satisfied(ctx, RulesOf(cfg)[1])
    /\ Satisfied(ctx, RulesOf(cfg)[2])
    /\ RulesOf(cfg)[1].when # {}
    /\ RulesOf(cfg)[1].decision = {"NOT_ALLOWED"}
    /\ RulesOf(cfg)[2].decision = {"LIMITED"}
    /\ out.val # {}
    /\ Res.decision = "NOT_ALLOWED"
    /\ Res.rule_id = {}

-----------------------------------------------------------------------------
(* C2 *)

NoRuleSatisfied(c, rs) ==
    \A i \in 1..Len(rs) : WellFormedWhen(rs[i].when) /\ ~Satisfied(c, rs[i])

\* C2: with rules_ordered missing or empty, or no rule's `when` satisfied,
\* evaluate returns ALLOWED, the fixed message, exactly the six base reasons in
\* order, no rule id, and legal_ref_keys that resolve to the empty sequence.
C2_DefaultResult ==
    (pc = "done" /\ NoRuleSatisfied(ctx, RulesOf(cfg)))
    => /\ out.exc = "none"
       /\ out.val # {}
       /\ Res.decision = "ALLOWED"
       /\ Res.message = DefaultMessage
       /\ Len(Res.reasons) = 6
       /\ SixBaseReasons(ctx, Res.reasons)
       /\ Res.rule_id = {}
       /\ Res.legal_ref_keys = {}
       /\ resolve_legal_refs(cfg, Res.legal_ref_keys) = <<>>

\* Two rules are configured, neither matches, and the default came back.
C2_Witness ==
    /\ pc = "done"
    /\ Len(RulesOf(cfg)) = 2
    /\ NoRuleSatisfied(ctx, RulesOf(cfg))
    /\ out.val # {}
    /\ Res.decision = "ALLOWED"

-----------------------------------------------------------------------------
(* C3, C4 *)

\* The conditions of the eight branches, in the order of the specification.
BranchCond(i, c) ==
    CASE i = 1 -> c.consent_status \in {"teilweise", "unbekannt"}
      [] i = 2 -> c.prominent_subject /\ c.identifiable
      [] i = 3 -> c.minors /\ c.channel = "social"
      [] i = 4 -> c.minors /\ ~c.group_photo
      [] i = 5 -> c.minors
      [] i = 6 -> c.channel = "social"
      [] i = 7 -> ~c.group_photo
      [] OTHER -> TRUE

BranchTier(i, c) ==
    CASE i = 1 -> "HIGH"
      [] i = 2 -> IF c.minors THEN "HIGH" ELSE "MEDIUM"
      [] i = 3 -> "HIGH"
      [] i = 4 -> "HIGH"
      [] i = 5 -> "MEDIUM"
      [] i = 6 -> "MEDIUM"
      [] i = 7 -> "MEDIUM"
      [] OTHER -> "LOW"

FirstBranch(c) ==
    CHOOSE i \in 1..8 : BranchCond(i, c) /\ \A j \in 1..(i - 1) : ~BranchCond(j, c)

\* C3: calculate_sensitivity returns one (tier, message) pair, its tier that of
\* the first branch of the cascade that holds, its message the one message of
\* that branch and tier.
C3_Cascade ==
    pc = "done" =>
        /\ out.exc = "none"
        /\ Cardinality(out.val) = 1
        /\ Res[1] \in {"LOW", "MEDIUM", "HIGH"}
        /\ Res[1] = BranchTier(FirstBranch(ctx), ctx)
        /\ \A c \in PhotoContext :
              (FirstBranch(c) = FirstBranch(ctx)
                 /\ BranchTier(FirstBranch(c), c) = Res[1])
              <=> calculate_sensitivity(c)[2] = Res[2]

\* Branch 5: minors in a group photo, not on social media, nobody prominent
\* and identifiable, full consent.
C3_Witness ==
    /\ pc = "done"
    /\ FirstBranch(ctx) = 5
    /\ ctx.channel = "print"
    /\ Res[1] = "MEDIUM"

\* C4: with consent_status teilweise or unbekannt the result is HIGH with the
\* consent-gap message, whatever the other fields are.
C4_ConsentGapIsHigh ==
    (pc = "done" /\ ctx.consent_status \in {"teilweise", "unbekannt"})
    => Res = <<"HIGH", "Hohe Sensibilitaet - Einwilligung ist nicht vollstaendig geklaert.">>

\* The scenario of the specification: every later branch would also hold.
C4_Witness ==
    /\ pc = "done"
    /\ ctx = [minors |-> TRUE, identifiable |-> TRUE, group_photo |-> FALSE,
              prominent_subject |-> TRUE, channel |-> "social",
              consent_status |-> "unbekannt"]
    /\ Res[1] = "HIGH"

-----------------------------------------------------------------------------
(* C5 *)

ExtraOf(rule) == IF rule.extra_reasons = {} THEN <<>> ELSE Some(rule.extra_reasons)

\* C5: the step that evaluates leaves the configuration (so each rule's
\* extra_reasons) as it was, and when a rule matches, the reasons returned are
\* the six base reasons followed by that rule's extra_reasons, each part in its
\* own order; without extra_reasons they are the six base reasons alone.
C5_ReasonsMerged ==
    [][(pc = "call" /\ pc' = "done") =>
        /\ cfg' = cfg
        /\ \A i \in 1..Len(RulesOf(cfg)) :
              LET r == RulesOf(cfg)[i] IN
              (FirstSatisfied(ctx, RulesOf(cfg), i) /\ ValidDecision(r) /\ r.message # {})
              => /\ out'.val # {}
                 /\ SixBaseReasons(ctx, Some(out'.val).reasons)
                 /\ Len(Some(out'.val).reasons) = 6 + Len(ExtraOf(r))
                 /\ \A n \in 1..Len(ExtraOf(r)) :
                       Some(out'.val).reasons[6 + n] = ExtraOf(r)[n]
                 /\ ExtraOf(RulesOf(cfg')[i]) = ExtraOf(r)
      ]_vars

\* The matched rule carries two extra reasons; eight reasons came back.
C5_Witness ==
    /\ pc = "done"
    /\ out.val # {}
    /\ Res.rule_id = {"r_limited"}
    /\ Len(Res.reasons) = 8
    /\ Res.reasons[7] = "Grund A"
    /\ Res.reasons[8] = "Grund B"

-----------------------------------------------------------------------------
(* C6 *)

CatalogOf(cf) == IF cf.legal_ref_catalog = {} THEN CatalogOn({}) ELSE Some(cf.legal_ref_catalog)

KeysOf(k) == IF k = {} THEN <<>> ELSE Some(k)

KnownKeys(cf, k) == SelectSeq(KeysOf(k), LAMBDA x : x \in DOMAIN CatalogOf(cf))

\* C6: resolve_legal_refs never raises and returns the catalog entries of just
\* the keys the catalog holds, in input order, duplicates kept; None, an empty
\* list, or a configuration without catalog give the empty sequence.
C6_ResolveKeepsKnownInOrder ==
    pc = "done" =>
        /\ out.exc = "none"
        /\ out.val # {}
        /\ Len(Res) = Len(KnownKeys(cfg, keys))
        /\ \A n \in 1..Len(Res) : Res[n] = CatalogOf(cfg)[KnownKeys(cfg, keys)[n]]
        /\ (keys = {} \/ keys = {<<>>} \/ cfg.legal_ref_catalog = {}) => Res = <<>>

\* Two known keys around an unknown one.
C6_Witness ==
    /\ pc = "done"
    /\ keys = {<<"kug22", "unknown", "dsgvo6">>}
    /\ cfg.legal_ref_catalog = {CatalogOn({"kug22", "dsgvo6"})}
    /\ Res = <<CatalogOn({"kug22"})["kug22"], CatalogOn({"dsgvo6"})["dsgvo6"]>>

-----------------------------------------------------------------------------
(* C7, C9 *)

\* The specification's reading of a malformed `when`: the malformed part is
\* "don't care".
SatisfiedLenient(c, rule) ==
    \/ rule.when = {}
    \/ Some(rule.when).kind = "null"
    \/ LET d == Some(rule.when).d IN
       /\ \A k \in EqualityKeys : d[k] = {} \/ Some(d[k]) = c[k]
       /\ d.channel_in = {} \/ ~Some(d.channel_in).coll
            \/ c.channel \in Some(d.channel_in).items

FirstLenient(c, rs, i) ==
    SatisfiedLenient(c, rs[i]) /\ \A j \in 1..(i - 1) : ~SatisfiedLenient(c, rs[j])

\* C7: evaluate raises exactly when the first matching rule's decision is none
\* of ALLOWED, LIMITED, NOT_ALLOWED.
C7_RaisesIffInvalidDecision ==
    pc = "done" =>
        (out.exc # "none"
           <=> \E i \in 1..Len(RulesOf(cfg)) :
                  FirstLenient(ctx, RulesOf(cfg), i) /\ ~ValidDecision(RulesOf(cfg)[i]))

\* C9: matching never fails on a `when`, whatever its shape.
C9_MatchingNeverRaises == pc = "done" => out.exc # "TypeError"

-----------------------------------------------------------------------------
(* C8, C10 *)

\* d2 is d with keys added: the keys of d keep their values.
Extends(d2, d) == \A k \in WhenKeys : d[k] = {} \/ d2[k] = d[k]

\* The keys rule_matches does not read.
UnreadKeys == {"channel", "minor"}

\* C8 as written: the result is true iff minors, identifiable, group_photo,
\* prominent_subject and channel_in, where present, are satisfied;
\* consent_status counts among the ignored keys.
C8_OnlyFiveKeysRead ==
    pc = "done" => (Res[1] = "True" <=> DictSatisfied(ctx, when.d, BoolKeys))

\* C8 amended: the result is true iff consent_status, minors, identifiable,
\* group_photo, prominent_subject and channel_in, where present, are satisfied;
\* adding any other key changes nothing.
C8_SixKeysRead ==
    pc = "done" =>
        /\ Res[1] = "True" <=> DictSatisfied(ctx, when.d, EqualityKeys)
        /\ Res[2] = "True" <=> DictSatisfied(ctx, when2.d, EqualityKeys)
        /\ (\A k \in WhenKeys \ UnreadKeys : when2.d[k] = when.d[k]) => Res[2] = Res[1]

\* consent_status alone decides against the match, and an added "channel" key
\* naming another channel does not matter.
C8_Witness ==
    /\ pc = "done"
    /\ when.d.consent_status # {}
    /\ Some(when.d.consent_status) # ctx.consent_status
    /\ DictSatisfied(ctx, when.d, BoolKeys)
    /\ when.d.channel = {}
    /\ when2.d.channel # {}
    /\ Some(when2.d.channel) # ctx.channel
    /\ Res = <<"False", "False">>

\* C10: a context that matches `when` with keys added matches `when`; the
\* empty `when` matches every context.
C10_Monotonic ==
    (pc = "done" /\ Extends(when2.d, when.d))
    => /\ Res[2] = "True" => Res[1] = "True"
       /\ when.d = EmptyDict => Res[1] = "True"

\* The added key is what stops the match.
C10_Witness ==
    /\ pc = "done"
    /\ Extends(when2.d, when.d)
    /\ NumKeys(when.d) = 1
    /\ NumKeys(when2.d) = 2
    /\ when.d.channel_in # {}
    /\ when2.d.minors # {}
    /\ Res = <<"True", "False">>

=============================================================================
